---- MODULE Spec2Model ----
(***************************************************************************)
(* A model of package bt (src/behavior.go): a behavior tree whose nodes    *)
(* are Action leaves, the serial composites Sequence and Selection, the    *)
(* parallel composites PSequence and PSelection, and the six decorators.   *)
(*                                                                         *)
(* A node is a record holding its own mutable fields, as the Go structs    *)
(* do: a composite has nodes and index, a pcomposite has nodes and         *)
(* complete, a decorator has node.  Child positions are 0-based as in the  *)
(* source; a node is named by its path, the child positions from the root. *)
(* The callable wrapped by an Action is external to the package: what the  *)
(* leaf at path p returns in one tick is the input in[p] of that tick.     *)
(***************************************************************************)
EXTENDS Integers, Sequences, FiniteSets, TLC

VARIABLES
  root,    \* the tree the caller holds
  before,  \* the tree as it was when the last call on it was made
  op,      \* the last call: "New", "Execute" or "Reset"
  ret,     \* what the last Execute returned
  log,     \* the events of the last call
  prev,    \* op, ret and log of the call before the last
  twin,    \* the second tree of a caller that drives two trees side by side
  run      \* the scripts of the leaves and the ticks of a caller that ticks to the end

vars == <<root, before, op, ret, log, prev, twin, run>>

\* ---------------------------------------------------------------- State
Unknown == 0
Running == 1
Success == 2
Failure == 3

\* What a callable may hand back: the four constants and one value of type
\* State that is none of them.
Unrecognized == Failure + 1
Results == {Unknown, Running, Success, Failure, Unrecognized}

\* ---------------------------------------------------------------- bounds
MaxNodes == 3
MaxKids == 3
\* The most Running results one recorded child gives before its Success.
MaxRuns == 2

\* ---------------------------------------------------------------- nodes
SerialKinds == {"Sequence", "Selection"}
ParallelKinds == {"PSequence", "PSelection"}
DecoratorKinds == {"Invert", "Repeat", "ForceSuccess", "ForceFailure", "Until", "While"}

Action == [kind |-> "Action"]

composite(k, bs) == [kind |-> k, nodes |-> bs, index |-> 0]

pcomposite(k, bs) == [kind |-> k, nodes |-> bs, complete |-> {}]

decorator(k, b) == [kind |-> k, node |-> b]

Sequence(bs) == composite("Sequence", bs)

Selection(bs) == composite("Selection", bs)

PSequence(bs) == pcomposite("PSequence", bs)

PSelection(bs) == pcomposite("PSelection", bs)

IsSerial(n) == n.kind \in SerialKinds

IsParallel(n) == n.kind \in ParallelKinds

IsDecorator(n) == n.kind \in DecoratorKinds

\* The children of a node, in order (a decorator has one, a leaf none).
Kids(n) ==
  IF IsSerial(n) \/ IsParallel(n) THEN n.nodes
  ELSE IF IsDecorator(n) THEN <<n.node>>
  ELSE <<>>

RECURSIVE NodeAt(_, _)
NodeAt(n, p) == IF p = <<>> THEN n ELSE NodeAt(Kids(n)[Head(p) + 1], Tail(p))

RECURSIVE Paths(_, _)
Paths(n, p) ==
  {p} \cup UNION {Paths(Kids(n)[i], Append(p, i - 1)) : i \in 1..Len(Kids(n))}

LeafPaths(n) == {p \in Paths(n, <<>>) : NodeAt(n, p).kind = "Action"}

\* ---------------------------------------------------------------- events
\* What one call on the root did, in order: an Execute event is appended
\* when the call returns, a Reset event when the call is entered.
ExecuteEvent(p, s) == [op |-> "Execute", path |-> p, ret |-> s]

ResetEvent(p) == [op |-> "Reset", path |-> p]

RECURSIVE Reset(_, _), Execute(_, _, _)

\* ---------------------------------------------------------------- Reset
\* for _, n := range c.nodes { n.Reset() }, from child i on.
RECURSIVE resetNodes(_, _, _, _)
resetNodes(n, p, i, lg) ==
  IF i < Len(n.nodes)
  THEN LET r == Reset(n.nodes[i + 1], Append(p, i))
       IN  resetNodes([n EXCEPT !.nodes[i + 1] = r.node], p, i + 1, lg \o r.log)
  ELSE [node |-> n, log |-> lg]

actionReset(n, p) == [node |-> n, log |-> <<ResetEvent(p)>>]

\* compositeReset that resets only the children from the cursor on.
compositeReset_FromCursor(n, p) ==
  resetNodes([n EXCEPT !.index = 0], p, n.index, <<ResetEvent(p)>>)

\* compositeReset that leaves the cursor where it is.
compositeReset_KeepsIndex(n, p) ==
  resetNodes(n, p, 0, <<ResetEvent(p)>>)

compositeReset(n, p) ==
  resetNodes([n EXCEPT !.index = 0], p, 0, <<ResetEvent(p)>>)

pcompositeReset(n, p) ==
  resetNodes([n EXCEPT !.complete = {}], p, 0, <<ResetEvent(p)>>)

\* decoratorReset that does not pass the call on to the wrapped node.
decoratorReset_NoChild(n, p) == [node |-> n, log |-> <<ResetEvent(p)>>]

decoratorReset(n, p) ==
  LET r == Reset(n.node, Append(p, 0))
  IN  [node |-> [n EXCEPT !.node = r.node], log |-> <<ResetEvent(p)>> \o r.log]

Reset(n, p) ==
  IF IsSerial(n) THEN compositeReset(n, p)
  ELSE IF IsParallel(n) THEN pcompositeReset(n, p)
  ELSE IF IsDecorator(n) THEN decoratorReset(n, p)
  ELSE actionReset(n, p)

\* ---------------------------------------------------------------- Execute
\* The end of a call of Execute on the node at p.
Return(n, p, s, lg) == [node |-> n, ret |-> s, log |-> Append(lg, ExecuteEvent(p, s))]

actionExecute(n, p, in) == Return(n, p, in[p], <<>>)

\* sequenceSwitch with case Failure taken for case Success.
sequenceSwitch_FailureContinues(s) ==
  CASE s = Running -> [continue |-> FALSE, ret |-> Running]
    [] s \in {Success, Failure} -> [continue |-> TRUE, ret |-> Success]
    [] OTHER -> [continue |-> FALSE, ret |-> Unknown]

\* The switch of sequence.Execute: what the loop does with a child's State.
sequenceSwitch(s) ==
  CASE s = Running -> [continue |-> FALSE, ret |-> Running]
    [] s = Success -> [continue |-> TRUE, ret |-> Success]
    [] s = Failure -> [continue |-> FALSE, ret |-> Failure]
    [] OTHER -> [continue |-> FALSE, ret |-> Unknown]

\* sequenceLoop that steps the cursor past a child that fails.
RECURSIVE sequenceLoop_AdvancesOnFailure(_, _, _, _)
sequenceLoop_AdvancesOnFailure(n, p, in, lg) ==
  IF n.index < Len(n.nodes)
  THEN LET c == Execute(n.nodes[n.index + 1], Append(p, n.index), in)
           n1 == [n EXCEPT !.nodes[n.index + 1] = c.node]
           sw == sequenceSwitch(c.ret)
       IN  IF sw.continue
           THEN sequenceLoop_AdvancesOnFailure([n1 EXCEPT !.index = @ + 1], p, in, lg \o c.log)
           ELSE Return(IF sw.ret = Failure THEN [n1 EXCEPT !.index = @ + 1] ELSE n1,
                       p, sw.ret, lg \o c.log)
  ELSE Return(n, p, Success, lg)

RECURSIVE sequenceLoop(_, _, _, _)
sequenceLoop(n, p, in, lg) ==
  IF n.index < Len(n.nodes)
  THEN LET c == Execute(n.nodes[n.index + 1], Append(p, n.index), in)
           n1 == [n EXCEPT !.nodes[n.index + 1] = c.node]
           sw == sequenceSwitch(c.ret)
       IN  IF sw.continue
           THEN sequenceLoop([n1 EXCEPT !.index = @ + 1], p, in, lg \o c.log)
           ELSE Return(n1, p, sw.ret, lg \o c.log)
  ELSE Return(n, p, Success, lg)

\* sequenceExecute that starts every tick at the first child.
sequenceExecute_FromStart(n, p, in) == sequenceLoop([n EXCEPT !.index = 0], p, in, <<>>)

sequenceExecute(n, p, in) == sequenceLoop(n, p, in, <<>>)

\* selectionSwitch as a copy of the switch of sequence.Execute.
selectionSwitch_AsSequence(s) ==
  CASE s = Running -> [continue |-> FALSE, ret |-> Running]
    [] s = Success -> [continue |-> TRUE, ret |-> Success]
    [] s = Failure -> [continue |-> FALSE, ret |-> Failure]
    [] OTHER -> [continue |-> FALSE, ret |-> Unknown]

\* The switch of selection.Execute.
selectionSwitch(s) ==
  CASE s = Running -> [continue |-> FALSE, ret |-> Running]
    [] s = Success -> [continue |-> FALSE, ret |-> Success]
    [] s = Failure -> [continue |-> TRUE, ret |-> Failure]
    [] OTHER -> [continue |-> FALSE, ret |-> Unknown]

\* selectionLoop that puts the cursor back to 0 when a child succeeds.
RECURSIVE selectionLoop_RewindsOnSuccess(_, _, _, _)
selectionLoop_RewindsOnSuccess(n, p, in, lg) ==
  IF n.index < Len(n.nodes)
  THEN LET c == Execute(n.nodes[n.index + 1], Append(p, n.index), in)
           n1 == [n EXCEPT !.nodes[n.index + 1] = c.node]
           sw == selectionSwitch(c.ret)
       IN  IF sw.continue
           THEN selectionLoop_RewindsOnSuccess([n1 EXCEPT !.index = @ + 1], p, in, lg \o c.log)
           ELSE Return(IF sw.ret = Success THEN [n1 EXCEPT !.index = 0] ELSE n1,
                       p, sw.ret, lg \o c.log)
  ELSE Return(n, p, Failure, lg)

RECURSIVE selectionLoop(_, _, _, _)
selectionLoop(n, p, in, lg) ==
  IF n.index < Len(n.nodes)
  THEN LET c == Execute(n.nodes[n.index + 1], Append(p, n.index), in)
           n1 == [n EXCEPT !.nodes[n.index + 1] = c.node]
           sw == selectionSwitch(c.ret)
       IN  IF sw.continue
           THEN selectionLoop([n1 EXCEPT !.index = @ + 1], p, in, lg \o c.log)
           ELSE Return(n1, p, sw.ret, lg \o c.log)
  ELSE Return(n, p, Failure, lg)

\* selectionExecute that returns Success when there is no child to try.
selectionExecute_EmptySucceeds(n, p, in) ==
  IF Len(n.nodes) = 0 THEN Return(n, p, Success, <<>>) ELSE selectionLoop(n, p, in, <<>>)

selectionExecute(n, p, in) == selectionLoop(n, p, in, <<>>)

\* psequenceSwitch that goes on after a Failure instead of returning.
psequenceSwitch_FailureGoesOn(s) ==
  CASE s = Success -> [return |-> FALSE, ret |-> Success, complete |-> TRUE, running |-> FALSE]
    [] s = Running -> [return |-> FALSE, ret |-> Running, complete |-> FALSE, running |-> TRUE]
    [] s = Failure -> [return |-> FALSE, ret |-> Failure, complete |-> FALSE, running |-> TRUE]
    [] OTHER -> [return |-> TRUE, ret |-> Unknown, complete |-> FALSE, running |-> FALSE]

\* psequenceSwitch that does not note a running child.
psequenceSwitch_RunningForgotten(s) ==
  CASE s = Success -> [return |-> FALSE, ret |-> Success, complete |-> TRUE, running |-> FALSE]
    [] s = Running -> [return |-> FALSE, ret |-> Running, complete |-> FALSE, running |-> FALSE]
    [] s = Failure -> [return |-> TRUE, ret |-> Failure, complete |-> FALSE, running |-> FALSE]
    [] OTHER -> [return |-> TRUE, ret |-> Unknown, complete |-> FALSE, running |-> FALSE]

\* psequenceSwitch that returns Running at the first running child.
psequenceSwitch_RunningReturns(s) ==
  CASE s = Success -> [return |-> FALSE, ret |-> Success, complete |-> TRUE, running |-> FALSE]
    [] s = Running -> [return |-> TRUE, ret |-> Running, complete |-> FALSE, running |-> TRUE]
    [] s = Failure -> [return |-> TRUE, ret |-> Failure, complete |-> FALSE, running |-> FALSE]
    [] OTHER -> [return |-> TRUE, ret |-> Unknown, complete |-> FALSE, running |-> FALSE]

\* The switch of psequence.Execute: mark the child complete, note that one
\* is running, or return.
psequenceSwitch(s) ==
  CASE s = Success -> [return |-> FALSE, ret |-> Success, complete |-> TRUE, running |-> FALSE]
    [] s = Running -> [return |-> FALSE, ret |-> Running, complete |-> FALSE, running |-> TRUE]
    [] s = Failure -> [return |-> TRUE, ret |-> Failure, complete |-> FALSE, running |-> FALSE]
    [] OTHER -> [return |-> TRUE, ret |-> Unknown, complete |-> FALSE, running |-> FALSE]

\* for i, n := range s.nodes, from child i on; running is the local flag.
RECURSIVE psequenceLoop(_, _, _, _, _, _)
psequenceLoop(n, p, in, i, running, lg) ==
  IF i < Len(n.nodes)
  THEN IF i \in n.complete
       THEN psequenceLoop(n, p, in, i + 1, running, lg)
       ELSE LET c == Execute(n.nodes[i + 1], Append(p, i), in)
                n1 == [n EXCEPT !.nodes[i + 1] = c.node]
                sw == psequenceSwitch(c.ret)
            IN  IF sw.return
                THEN Return(n1, p, sw.ret, lg \o c.log)
                ELSE psequenceLoop(
                       IF sw.complete THEN [n1 EXCEPT !.complete = @ \cup {i}] ELSE n1,
                       p, in, i + 1, running \/ sw.running, lg \o c.log)
  ELSE Return(n, p, IF running THEN Running ELSE Success, lg)

\* psequenceExecute that forgets the completed children when it aborts.
psequenceExecute_AbortClears(n, p, in) ==
  LET e == psequenceLoop(n, p, in, 0, FALSE, <<>>)
  IN  IF e.ret \in {Failure, Unknown} THEN [e EXCEPT !.node.complete = {}] ELSE e

psequenceExecute(n, p, in) == psequenceLoop(n, p, in, 0, FALSE, <<>>)

\* pselectionSwitch that marks a running child complete.
pselectionSwitch_RunningCompletes(s) ==
  CASE s = Failure -> [return |-> FALSE, ret |-> Failure, complete |-> TRUE, running |-> FALSE]
    [] s = Running -> [return |-> FALSE, ret |-> Running, complete |-> TRUE, running |-> TRUE]
    [] s = Success -> [return |-> TRUE, ret |-> Success, complete |-> FALSE, running |-> FALSE]
    [] OTHER -> [return |-> TRUE, ret |-> Unknown, complete |-> FALSE, running |-> FALSE]

\* pselectionSwitch that forgets to mark a failed child complete.
pselectionSwitch_NoComplete(s) ==
  CASE s = Failure -> [return |-> FALSE, ret |-> Failure, complete |-> FALSE, running |-> FALSE]
    [] s = Running -> [return |-> FALSE, ret |-> Running, complete |-> FALSE, running |-> TRUE]
    [] s = Success -> [return |-> TRUE, ret |-> Success, complete |-> FALSE, running |-> FALSE]
    [] OTHER -> [return |-> TRUE, ret |-> Unknown, complete |-> FALSE, running |-> FALSE]

\* The switch of pselection.Execute.
pselectionSwitch(s) ==
  CASE s = Failure -> [return |-> FALSE, ret |-> Failure, complete |-> TRUE, running |-> FALSE]
    [] s = Running -> [return |-> FALSE, ret |-> Running, complete |-> FALSE, running |-> TRUE]
    [] s = Success -> [return |-> TRUE, ret |-> Success, complete |-> FALSE, running |-> FALSE]
    [] OTHER -> [return |-> TRUE, ret |-> Unknown, complete |-> FALSE, running |-> FALSE]

RECURSIVE pselectionLoop(_, _, _, _, _, _)
pselectionLoop(n, p, in, i, running, lg) ==
  IF i < Len(n.nodes)
  THEN IF i \in n.complete
       THEN pselectionLoop(n, p, in, i + 1, running, lg)
       ELSE LET c == Execute(n.nodes[i + 1], Append(p, i), in)
                n1 == [n EXCEPT !.nodes[i + 1] = c.node]
                sw == pselectionSwitch(c.ret)
            IN  IF sw.return
                THEN Return(n1, p, sw.ret, lg \o c.log)
                ELSE pselectionLoop(
                       IF sw.complete THEN [n1 EXCEPT !.complete = @ \cup {i}] ELSE n1,
                       p, in, i + 1, running \/ sw.running, lg \o c.log)
  ELSE Return(n, p, IF running THEN Running ELSE Failure, lg)

pselectionExecute(n, p, in) == pselectionLoop(n, p, in, 0, FALSE, <<>>)

\* The transforms: the State a decorator returns for its child's State s,
\* and whether the closure calls b.Reset() on the way.
\* invert that hands on a State it does not know as it is.
invert_PassesOther(s) ==
  CASE s = Running -> [ret |-> Running, reset |-> FALSE]
    [] s = Success -> [ret |-> Failure, reset |-> FALSE]
    [] s = Failure -> [ret |-> Success, reset |-> FALSE]
    [] OTHER -> [ret |-> s, reset |-> FALSE]

invert(s) ==
  CASE s = Running -> [ret |-> Running, reset |-> FALSE]
    [] s = Success -> [ret |-> Failure, reset |-> FALSE]
    [] s = Failure -> [ret |-> Success, reset |-> FALSE]
    [] OTHER -> [ret |-> Unknown, reset |-> FALSE]

\* repeat that resets the child after a Success and hands the Success on.
repeat_PassesSuccess(s) ==
  CASE s = Success -> [ret |-> Success, reset |-> TRUE]
    [] s = Failure -> [ret |-> Running, reset |-> TRUE]
    [] s = Running -> [ret |-> Running, reset |-> FALSE]
    [] OTHER -> [ret |-> Unknown, reset |-> FALSE]

repeat(s) ==
  CASE s \in {Success, Failure} -> [ret |-> Running, reset |-> TRUE]
    [] s = Running -> [ret |-> Running, reset |-> FALSE]
    [] OTHER -> [ret |-> Unknown, reset |-> FALSE]

\* forceSuccess that also turns an Unknown into Success.
forceSuccess_MasksUnknown(s) ==
  CASE s = Running -> [ret |-> Running, reset |-> FALSE]
    [] OTHER -> [ret |-> Success, reset |-> FALSE]

forceSuccess(s) ==
  CASE s \in {Success, Failure} -> [ret |-> Success, reset |-> FALSE]
    [] s = Running -> [ret |-> Running, reset |-> FALSE]
    [] OTHER -> [ret |-> Unknown, reset |-> FALSE]

forceFailure(s) ==
  CASE s \in {Success, Failure} -> [ret |-> Failure, reset |-> FALSE]
    [] s = Running -> [ret |-> Running, reset |-> FALSE]
    [] OTHER -> [ret |-> Unknown, reset |-> FALSE]

\* until that hands a Failure on instead of looping.
until_FailurePasses(s) ==
  CASE s = Success -> [ret |-> Success, reset |-> FALSE]
    [] s = Failure -> [ret |-> Failure, reset |-> TRUE]
    [] s = Running -> [ret |-> Running, reset |-> FALSE]
    [] OTHER -> [ret |-> Unknown, reset |-> FALSE]

until(s) ==
  CASE s = Success -> [ret |-> Success, reset |-> FALSE]
    [] s = Failure -> [ret |-> Running, reset |-> TRUE]
    [] s = Running -> [ret |-> Running, reset |-> FALSE]
    [] OTHER -> [ret |-> Unknown, reset |-> FALSE]

\* while that turns a Success into Running and leaves the child as it is.
while_NoReset(s) ==
  CASE s = Failure -> [ret |-> Failure, reset |-> FALSE]
    [] s = Success -> [ret |-> Running, reset |-> FALSE]
    [] s = Running -> [ret |-> Running, reset |-> FALSE]
    [] OTHER -> [ret |-> Unknown, reset |-> FALSE]

while(s) ==
  CASE s = Failure -> [ret |-> Failure, reset |-> FALSE]
    [] s = Success -> [ret |-> Running, reset |-> TRUE]
    [] s = Running -> [ret |-> Running, reset |-> FALSE]
    [] OTHER -> [ret |-> Unknown, reset |-> FALSE]

\* The transform field of the decorator each constructor builds.
transform(k, s) ==
  CASE k = "Invert" -> invert(s)
    [] k = "Repeat" -> repeat(s)
    [] k = "ForceSuccess" -> forceSuccess(s)
    [] k = "ForceFailure" -> forceFailure(s)
    [] k = "Until" -> until(s)
    [] k = "While" -> while(s)

\* return d.transform(d.node.Execute())
decoratorExecute(n, p, in) ==
  LET c == Execute(n.node, Append(p, 0), in)
      t == transform(n.kind, c.ret)
      r == Reset(c.node, Append(p, 0))
  IN  IF t.reset
      THEN Return([n EXCEPT !.node = r.node], p, t.ret, c.log \o r.log)
      ELSE Return([n EXCEPT !.node = c.node], p, t.ret, c.log)

Execute(n, p, in) ==
  CASE n.kind = "Sequence" -> sequenceExecute(n, p, in)
    [] n.kind = "Selection" -> selectionExecute(n, p, in)
    [] n.kind = "PSequence" -> psequenceExecute(n, p, in)
    [] n.kind = "PSelection" -> pselectionExecute(n, p, in)
    [] IsDecorator(n) -> decoratorExecute(n, p, in)
    [] OTHER -> actionExecute(n, p, in)

\* ---------------------------------------------------------------- trees
\* Every tree of exactly k nodes whose composites have at most MaxKids
\* children, as the constructors build it.
RECURSIVE TreesOfSize(_), KidLists(_, _)
KidLists(total, len) ==
  IF total = 0 THEN {<<>>}
  ELSE IF len = 0 THEN {}
  ELSE UNION {{<<b>> \o bs : b \in TreesOfSize(k), bs \in KidLists(total - k, len - 1)} :
              k \in 1..total}

TreesOfSize(k) ==
  IF k = 0 THEN {}
  ELSE (IF k = 1 THEN {Action} ELSE {})
       \cup {decorator(d, b) : d \in DecoratorKinds, b \in TreesOfSize(k - 1)}
       \cup {composite(c, bs) : c \in SerialKinds, bs \in KidLists(k - 1, MaxKids)}
       \cup {pcomposite(c, bs) : c \in ParallelKinds, bs \in KidLists(k - 1, MaxKids)}

\* A composite of each kind over j leaves.
FlatTrees(j) ==
  {composite(c, [i \in 1..j |-> Action]) : c \in SerialKinds}
  \cup {pcomposite(c, [i \in 1..j |-> Action]) : c \in ParallelKinds}

Trees ==
  UNION {TreesOfSize(k) : k \in 1..MaxNodes} \cup UNION {FlatTrees(j) : j \in 0..MaxKids}

\* ---------------------------------------------------------------- the caller
NoTwin == [kind |-> "None"]

NoRun == [ticks |-> 0]


Init ==
  /\ root \in Trees
  /\ before = root
  /\ op = "New"
  /\ ret = Unknown
  /\ log = <<>>
  /\ prev = [op |-> "New", ret |-> Unknown, log |-> <<>>]
  /\ twin = NoTwin
  /\ run = NoRun

\* b.Execute() on the root, the leaves answering in[p].
ExecuteRoot ==
  \E in \in [LeafPaths(root) -> Results] :
    LET c == Execute(root, <<>>, in)
    IN  /\ root' = c.node
        /\ before' = root
        /\ op' = "Execute"
        /\ ret' = c.ret
        /\ log' = c.log
        /\ UNCHANGED <<prev, twin, run>>

\* b.Reset() on the root.
ResetRoot ==
  LET r == Reset(root, <<>>)
  IN  /\ root' = r.node
      /\ before' = root
      /\ op' = "Reset"
      /\ ret' = Unknown
      /\ log' = r.log
      /\ UNCHANGED <<prev, twin, run>>

Next == ExecuteRoot \/ ResetRoot

Spec == Init /\ [][Next]_vars

\* ------------------------------------------------- two calls in a row
\* The same caller, remembering in prev what the call before the last was,
\* what it returned and what it did.
Seen == [op |-> op, ret |-> ret, log |-> log]

ExecuteNext ==
  \E in \in [LeafPaths(root) -> Results] :
    LET c == Execute(root, <<>>, in)
    IN  /\ root' = c.node
        /\ before' = root
        /\ op' = "Execute"
        /\ ret' = c.ret
        /\ log' = c.log
        /\ prev' = Seen
        /\ UNCHANGED <<twin, run>>

ResetNext ==
  LET r == Reset(root, <<>>)
  IN  /\ root' = r.node
      /\ before' = root
      /\ op' = "Reset"
      /\ ret' = Unknown
      /\ log' = r.log
      /\ prev' = Seen
      /\ UNCHANGED <<twin, run>>

NextHistory == ExecuteNext \/ ResetNext

SpecHistory == Init /\ [][NextHistory]_vars

\* ------------------------------------------------- two trees side by side
\* A caller that holds a Selection (or PSelection) and the Sequence (or
\* PSequence) built over as many leaves, and calls both each time, the
\* callables of the second answering with Success and Failure exchanged.
swap(s) ==
  CASE s = Success -> Failure
    [] s = Failure -> Success
    [] OTHER -> s

DualOf(n) == IF n.kind = "Selection" THEN Sequence(n.nodes) ELSE PSequence(n.nodes)

InitDual ==
  /\ root \in {t \in UNION {FlatTrees(j) : j \in 0..MaxKids} :
                 t.kind \in {"Selection", "PSelection"}}
  /\ before = root
  /\ op = "New"
  /\ ret = Unknown
  /\ log = <<>>
  /\ prev = [op |-> "New", ret |-> Unknown, log |-> <<>>]
  /\ twin = [node |-> DualOf(root), ret |-> Unknown, log |-> <<>>]
  /\ run = NoRun

ExecuteBoth ==
  \E in \in [LeafPaths(root) -> Results] :
    LET c == Execute(root, <<>>, in)
        d == Execute(twin.node, <<>>, [p \in LeafPaths(root) |-> swap(in[p])])
    IN  /\ root' = c.node
        /\ before' = root
        /\ op' = "Execute"
        /\ ret' = c.ret
        /\ log' = c.log
        /\ twin' = [node |-> d.node, ret |-> d.ret, log |-> d.log]
        /\ UNCHANGED <<prev, run>>

ResetBoth ==
  LET r == Reset(root, <<>>)
      t == Reset(twin.node, <<>>)
  IN  /\ root' = r.node
      /\ before' = root
      /\ op' = "Reset"
      /\ ret' = Unknown
      /\ log' = r.log
      /\ twin' = [node |-> t.node, ret |-> Unknown, log |-> t.log]
      /\ UNCHANGED <<prev, run>>

NextDual == ExecuteBoth \/ ResetBoth

SpecDual == InitDual /\ [][NextDual]_vars

\* ---------------------------------------------------------------- reading the log
IsResetAt(lg, p) == \E j \in 1..Len(lg) : lg[j] = ResetEvent(p)

IsExecutedAt(lg, p) == \E j \in 1..Len(lg) : lg[j].op = "Execute" /\ lg[j].path = p

\* What the Execute of the node at p returned in this call.
RetAt(lg, p) ==
  LET j == CHOOSE j \in 1..Len(lg) : lg[j].op = "Execute" /\ lg[j].path = p
  IN  lg[j].ret

IsChildOf(q, p) == Len(q) = Len(p) + 1 /\ SubSeq(q, 1, Len(p)) = p

\* The Execute events of the children of the node at p, in the order of
\* the calls, and the child positions and States in them.
ChildCalls(lg, p) == SelectSeq(lg, LAMBDA e : e.op = "Execute" /\ IsChildOf(e.path, p))

ChildIndex(e) == e.path[Len(e.path)]

\* The position in cs of the first child that did not return Success, or
\* Len(cs) + 1 if all did.
FirstNot(cs, s) ==
  IF \E j \in 1..Len(cs) : cs[j].ret # s
  THEN CHOOSE j \in 1..Len(cs) : cs[j].ret # s /\ \A i \in 1..(j - 1) : cs[i].ret = s
  ELSE Len(cs) + 1

\* The paths at which the tree held a node of kind k when the last call was
\* made and on which that call ran Execute.
ExecutedOfKind(k) ==
  {p \in Paths(before, <<>>) : NodeAt(before, p).kind = k /\ IsExecutedAt(log, p)}

\* ---------------------------------------------------------------- C1
\* C1: one Execute of a Sequence calls its children in index order from
\* the stored cursor; it returns Failure exactly if a child returned
\* Failure after only Successes, Running if the first child not to return
\* Success returned Running, Unknown if that child returned Unknown or an
\* unrecognized State, and Success exactly if every child from the cursor
\* to the end of the list returned Success.
SequenceTick(p) ==
  LET n == NodeAt(before, p)
      cs == ChildCalls(log, p)
      r == RetAt(log, p)
      f == FirstNot(cs, Success)
  IN  /\ \A j \in 1..Len(cs) : ChildIndex(cs[j]) = n.index + j - 1
      /\ (r = Failure) <=>
           \E j \in 1..Len(cs) :
             cs[j].ret = Failure /\ \A i \in 1..(j - 1) : cs[i].ret = Success
      /\ (f <= Len(cs) /\ cs[f].ret = Running) => r = Running
      /\ (f <= Len(cs) /\ cs[f].ret \notin {Running, Success, Failure}) => r = Unknown
      /\ (r = Success) <=>
           /\ Len(cs) = Len(n.nodes) - n.index
           /\ \A j \in 1..Len(cs) : cs[j].ret = Success
      /\ r \in {Running, Success, Failure, Unknown}

C1_SequenceResult ==
  op = "Execute" => \A p \in ExecutedOfKind("Sequence") : SequenceTick(p)

\* A Sequence of three resumed at its second child, which succeeded, and
\* failed by its third.
C1_Witness ==
  /\ op = "Execute"
  /\ before.kind = "Sequence"
  /\ Len(before.nodes) = 3
  /\ before.index = 1
  /\ ret = Failure
  /\ Len(ChildCalls(log, <<>>)) = 2

\* ---------------------------------------------------------------- C2
\* The two logs name the same calls in the same order, each State of the
\* first being the swap of the State of the second.
SwappedLogs(lg, tlg) ==
  /\ Len(lg) = Len(tlg)
  /\ \A j \in 1..Len(lg) :
       /\ lg[j].op = tlg[j].op
       /\ lg[j].path = tlg[j].path
       /\ lg[j].op = "Execute" => lg[j].ret = swap(tlg[j].ret)

\* C2: after every call, a Selection and the Sequence over the same
\* children fed the swapped results have equal cursors, have called the
\* same children in the same order, and the Selection has returned the
\* swap of what the Sequence returned.
C2_SelectionDual ==
  root.kind = "Selection" =>
    /\ twin.node.kind = "Sequence"
    /\ Len(twin.node.nodes) = Len(root.nodes)
    /\ twin.node.index = root.index
    /\ SwappedLogs(log, twin.log)
    /\ op = "Execute" => ret = swap(twin.ret)

\* A Selection of three resumed at its second child, which failed, and
\* succeeded by its third, while the Sequence failed.
C2_Witness ==
  /\ op = "Execute"
  /\ root.kind = "Selection"
  /\ before.index = 1
  /\ root.index = 2
  /\ ret = Success
  /\ twin.ret = Failure

\* ---------------------------------------------------------------- C5
\* C5: after every call, a PSelection and the PSequence over the same
\* children fed the swapped results have equal completed-sets, have called
\* the same children in the same order, and the PSelection has returned
\* the swap of what the PSequence returned.
C5_PSelectionDual ==
  root.kind = "PSelection" =>
    /\ twin.node.kind = "PSequence"
    /\ Len(twin.node.nodes) = Len(root.nodes)
    /\ twin.node.complete = root.complete
    /\ SwappedLogs(log, twin.log)
    /\ op = "Execute" => ret = swap(twin.ret)

\* A PSelection of three whose first child had failed earlier: the second
\* fails now and the third is running.
C5_Witness ==
  /\ op = "Execute"
  /\ root.kind = "PSelection"
  /\ before.complete = {0}
  /\ root.complete = {0, 1}
  /\ ret = Running
  /\ twin.ret = Running
  /\ Len(ChildCalls(log, <<>>)) = 2

\* ---------------------------------------------------------------- C3
\* The child that made the pass over cs return early, if one did: the last
\* one called, having returned neither Success nor Running.
Aborted(cs) == Len(cs) > 0 /\ cs[Len(cs)].ret \notin {Success, Running}

\* C3: one Execute of a PSequence calls each child that is not in the
\* completed-set once, in increasing index order, up to and including the
\* first that returns Failure or Unknown and none after it; it calls no
\* child of the completed-set, and a child that returns Success is in the
\* completed-set from then until Reset.
PSequenceCalls(p) ==
  LET n == NodeAt(before, p)
      cs == ChildCalls(log, p)
      pending == (0..(Len(n.nodes) - 1)) \ n.complete
      called == {ChildIndex(cs[j]) : j \in 1..Len(cs)}
  IN  /\ \A i, j \in 1..Len(cs) : i < j => ChildIndex(cs[i]) < ChildIndex(cs[j])
      /\ \A j \in 1..(Len(cs) - 1) : cs[j].ret \in {Success, Running}
      /\ called =
           IF Aborted(cs)
           THEN {i \in pending : i <= ChildIndex(cs[Len(cs)])}
           ELSE pending
      /\ called \cap n.complete = {}
      /\ ~IsResetAt(log, p) =>
           NodeAt(root, p).complete =
             n.complete \cup {ChildIndex(cs[j]) : j \in {i \in 1..Len(cs) : cs[i].ret = Success}}

C3_PSequenceCalls ==
  op = "Execute" => \A p \in ExecutedOfKind("PSequence") : PSequenceCalls(p)

\* A PSequence of three whose first child had succeeded earlier: this tick
\* skips it, and the second child fails, so the third is not called.
C3_Witness ==
  /\ op = "Execute"
  /\ before.kind = "PSequence"
  /\ Len(before.nodes) = 3
  /\ before.complete = {0}
  /\ ret = Failure
  /\ Len(ChildCalls(log, <<>>)) = 1
  /\ ChildIndex(ChildCalls(log, <<>>)[1]) = 1

\* ---------------------------------------------------------------- C4
\* C4: an Execute of a PSequence returns Failure (Unknown) as soon as a
\* child returns Failure (Unknown), whatever ran before it in the pass;
\* a pass that is not cut short returns Running if a child returned
\* Running in it and Success otherwise, and then every index is in the
\* completed-set.
PSequenceResult(p) ==
  LET n == NodeAt(before, p)
      cs == ChildCalls(log, p)
      r == RetAt(log, p)
  IN  IF Aborted(cs)
      THEN r = (IF cs[Len(cs)].ret = Failure THEN Failure ELSE Unknown)
      ELSE IF \E j \in 1..Len(cs) : cs[j].ret = Running
      THEN r = Running
      ELSE /\ r = Success
           /\ ~IsResetAt(log, p) =>
                NodeAt(root, p).complete = 0..(Len(n.nodes) - 1)

C4_PSequenceResult ==
  op = "Execute" => \A p \in ExecutedOfKind("PSequence") : PSequenceResult(p)

\* A PSequence whose first child is running and whose second fails: the
\* tick returns Failure.
C4_Witness ==
  /\ op = "Execute"
  /\ before.kind = "PSequence"
  /\ ret = Failure
  /\ Len(ChildCalls(log, <<>>)) = 2
  /\ ChildCalls(log, <<>>)[1].ret = Running

\* A pass that is not cut short and in which nothing runs returns Success
\* with the completed-set full.
C4_WitnessSuccess ==
  /\ op = "Execute"
  /\ before.kind = "PSequence"
  /\ Len(before.nodes) = 3
  /\ before.complete = {1}
  /\ ret = Success
  /\ root.complete = {0, 1, 2}

\* ---------------------------------------------------------------- C6
\* The table of section 4.4 of the specification, row by row.
DecoratorTable ==
  [Invert |->       [r \in {Running} |-> Running] @@ [r \in {Success} |-> Failure]
                    @@ [r \in {Failure} |-> Success] @@ [r \in {Unknown} |-> Unknown],
   Repeat |->       [r \in {Running} |-> Running] @@ [r \in {Success} |-> Running]
                    @@ [r \in {Failure} |-> Running] @@ [r \in {Unknown} |-> Unknown],
   ForceSuccess |-> [r \in {Running} |-> Running] @@ [r \in {Success} |-> Success]
                    @@ [r \in {Failure} |-> Success] @@ [r \in {Unknown} |-> Unknown],
   ForceFailure |-> [r \in {Running} |-> Running] @@ [r \in {Success} |-> Failure]
                    @@ [r \in {Failure} |-> Failure] @@ [r \in {Unknown} |-> Unknown],
   Until |->        [r \in {Running} |-> Running] @@ [r \in {Success} |-> Success]
                    @@ [r \in {Failure} |-> Running] @@ [r \in {Unknown} |-> Unknown],
   While |->        [r \in {Running} |-> Running] @@ [r \in {Success} |-> Running]
                    @@ [r \in {Failure} |-> Failure] @@ [r \in {Unknown} |-> Unknown]]

ExecutedDecorators ==
  {p \in Paths(root, <<>>) : IsDecorator(NodeAt(root, p)) /\ IsExecutedAt(log, p)}

\* C6: an Execute of a decorator whose child returned Running, Success,
\* Failure or Unknown returns the entry of the table for its kind.
C6_DecoratorTable ==
  op = "Execute" =>
    \A p \in ExecutedDecorators :
      LET s == RetAt(log, Append(p, 0))
      IN  s \in {Running, Success, Failure, Unknown} =>
            RetAt(log, p) = DecoratorTable[NodeAt(root, p).kind][s]

\* An Until whose child failed returned Running.
C6_Witness ==
  /\ op = "Execute"
  /\ root.kind = "Until"
  /\ RetAt(log, <<0>>) = Failure
  /\ ret = Running

\* ---------------------------------------------------------------- C7
IsLeafCall(e) == e.op = "Execute" /\ NodeAt(root, e.path).kind = "Action"

\* C7: if a leaf returns Unknown during an Execute of the root, no leaf is
\* called after it, every Execute that returns after it returns Unknown,
\* the root's included; and a node whose child returned Unknown returns
\* Unknown.
C7_UnknownSurfaces ==
  op = "Execute" =>
    /\ \A j \in 1..Len(log) :
         (IsLeafCall(log[j]) /\ log[j].ret = Unknown) =>
           /\ ret = Unknown
           /\ \A i \in (j + 1)..Len(log) :
                /\ ~IsLeafCall(log[i])
                /\ log[i].op = "Execute" => log[i].ret = Unknown
    /\ \A p \in Paths(root, <<>>) :
         IsExecutedAt(log, p) =>
           \A j \in 1..Len(ChildCalls(log, p)) :
             ChildCalls(log, p)[j].ret = Unknown => RetAt(log, p) = Unknown

\* An Unknown from the leaf of a composite inside a decorator comes out of
\* the root.
C7_Witness ==
  /\ op = "Execute"
  /\ root.kind = "ForceSuccess"
  /\ root.node.kind = "PSelection"
  /\ IsExecutedAt(log, <<0, 0>>)
  /\ RetAt(log, <<0, 0>>) = Unknown
  /\ ret = Unknown

\* An Unknown from the second of three children, the first running: the
\* third is not called.
C7_WitnessFlat ==
  /\ op = "Execute"
  /\ root.kind = "PSequence"
  /\ Len(root.nodes) = 3
  /\ Len(log) = 3
  /\ log[1].ret = Running
  /\ log[2].ret = Unknown
  /\ ret = Unknown

\* ---------------------------------------------------------------- C8
\* The node of the shape of n as the constructors build it.
RECURSIVE Fresh(_)
Fresh(n) ==
  IF IsSerial(n) THEN composite(n.kind, [i \in 1..Len(n.nodes) |-> Fresh(n.nodes[i])])
  ELSE IF IsParallel(n) THEN pcomposite(n.kind, [i \in 1..Len(n.nodes) |-> Fresh(n.nodes[i])])
  ELSE IF IsDecorator(n) THEN decorator(n.kind, Fresh(n.node))
  ELSE Action

\* C8: a node on which Reset was called, by the caller or by a looping
\* decorator above it, is in the state in which its constructor built it:
\* every cursor of its subtree 0, every completed-set empty.  (Execute is a
\* function of that state and of what the leaves answer, so the ticks that
\* follow are those of a new node.)
C8_ResetRestores ==
  \A j \in 1..Len(log) :
    log[j].op = "Reset" =>
      NodeAt(root, log[j].path) = Fresh(NodeAt(root, log[j].path))

\* Reset on a Sequence whose cursor had moved and whose inner composite
\* had a child complete.
C8_Witness ==
  /\ op = "Reset"
  /\ before.kind = "Sequence"
  /\ before.index = 1
  /\ before.nodes[1].kind = "PSequence"
  /\ before.nodes[1].complete = {0}
  /\ root = Fresh(before)
  /\ root # before

\* ---------------------------------------------------------------- C9
\* C9: a Reset of a node is followed by a Reset of every node below it.
C9_ResetReachesAll ==
  \A j \in 1..Len(log) :
    log[j].op = "Reset" =>
      \A q \in Paths(NodeAt(root, log[j].path), log[j].path) :
        \E i \in j..Len(log) : log[i] = ResetEvent(q)

\* Reset on a Sequence of three with the cursor on its second child: the
\* child before the cursor, the one at it and the one past it are reset.
C9_Witness ==
  /\ op = "Reset"
  /\ before.kind = "Sequence"
  /\ Len(before.nodes) = 3
  /\ before.index = 1
  /\ {log[j].path : j \in 1..Len(log)} = {<<>>, <<0>>, <<1>>, <<2>>}

\* Reset on a PSequence with a child in the completed-set, by a While.
C9_WitnessNested ==
  /\ op = "Execute"
  /\ root.kind = "While"
  /\ root.node.kind = "PSequence"
  /\ IsExecutedAt(log, <<0, 0>>)
  /\ RetAt(log, <<0, 0>>) = Success
  /\ IsResetAt(log, <<0, 0>>)

\* ---------------------------------------------------------------- C10
\* C10: in every state Reset can be called, and calling it a second time
\* changes no cursor and no completed-set.
C10_ResetIdempotent ==
  /\ ENABLED ResetRoot
  /\ LET r == Reset(root, <<>>)
     IN  Reset(r.node, <<>>).node = r.node
  /\ op = "Reset" => Reset(root, <<>>).node = root

\* Reset on a tree that is as Reset leaves it (here a PSequence of three,
\* reset before any tick or twice in a row): nothing changes.
C10_Witness ==
  /\ op = "Reset"
  /\ before = root
  /\ root.kind = "PSequence"
  /\ Len(root.nodes) = 3

\* Reset on a composite without children.
C10_WitnessEmpty ==
  /\ op = "Reset"
  /\ root.kind = "Selection"
  /\ Len(root.nodes) = 0

\* ---------------------------------------------------------------- C11
Enumerated == {Unknown, Running, Success, Failure}

\* C11 as stated: every Execute, that of an Action whose callable hands
\* back a State outside Running, Success and Failure included, returns one
\* of the four enumerated States.
C11_EveryNodeEnumerated ==
  op = "Execute" =>
    \A j \in 1..Len(log) : log[j].op = "Execute" => log[j].ret \in Enumerated

\* C11 as amended: every Execute of a composite or of a decorator returns
\* one of the four enumerated States, and Unknown when the child that ended
\* it returned a State outside Running, Success and Failure; the Execute of
\* an Action returns what its callable returned, enumerated or not.
C11_InnerNodesEnumerated ==
  op = "Execute" =>
    \A p \in Paths(root, <<>>) :
      (IsExecutedAt(log, p) /\ NodeAt(root, p).kind # "Action") =>
        /\ RetAt(log, p) \in Enumerated
        /\ \A j \in 1..Len(ChildCalls(log, p)) :
             ChildCalls(log, p)[j].ret \notin {Running, Success, Failure} =>
               RetAt(log, p) = Unknown

\* A State that is none of the four comes out of a leaf, and its parent
\* returns Unknown.
C11_Witness ==
  /\ op = "Execute"
  /\ root.kind = "Invert"
  /\ root.node.kind = "Action"
  /\ RetAt(log, <<0>>) = Unrecognized
  /\ ret = Unknown

\* ---------------------------------------------------------------- C12
SerialPaths == {p \in Paths(root, <<>>) : IsSerial(NodeAt(root, p))}

\* C12: the cursor of a Sequence or Selection is in 0..len(nodes); an
\* Execute that no Reset follows does not lower it; Reset puts it to 0;
\* and no call changes the number of children.
C12_CursorBounds ==
  /\ Paths(root, <<>>) = Paths(before, <<>>)
  /\ \A p \in SerialPaths :
       LET n == NodeAt(root, p)
           b == NodeAt(before, p)
       IN  /\ n.index \in 0..Len(n.nodes)
           /\ b.kind = n.kind
           /\ Len(b.nodes) = Len(n.nodes)
           /\ (op = "Execute" /\ ~IsResetAt(log, p)) => n.index >= b.index
           /\ IsResetAt(log, p) => n.index = 0

\* An Execute took the cursor of a Selection of three from 1 to the end.
C12_Witness ==
  /\ op = "Execute"
  /\ root.kind = "Selection"
  /\ Len(root.nodes) = 3
  /\ before.index = 1
  /\ root.index = 3

\* A Reset took the cursor of a Sequence from the end to 0.
C12_WitnessReset ==
  /\ op = "Reset"
  /\ before.kind = "Sequence"
  /\ before.index = 3
  /\ root.index = 0

\* ---------------------------------------------------------------- C13
ParallelPaths == {p \in Paths(root, <<>>) : IsParallel(NodeAt(root, p))}

\* The State with which a child of a composite of kind k is complete.
Completing(k) == IF k = "PSequence" THEN Success ELSE Failure

\* C13: the completed-set of a PSequence or PSelection holds child
\* positions only; an Execute that no Reset follows, also one that returns
\* early, takes no index out of it and puts in only the children that
\* returned Success (PSequence) or Failure (PSelection) in it; Reset
\* empties it.
C13_CompletedSet ==
  \A p \in ParallelPaths :
    LET n == NodeAt(root, p)
        b == NodeAt(before, p)
        cs == ChildCalls(log, p)
    IN  /\ n.complete \subseteq 0..(Len(n.nodes) - 1)
        /\ (op = "Execute" /\ ~IsResetAt(log, p)) =>
             /\ b.complete \subseteq n.complete
             /\ \A i \in n.complete \ b.complete :
                  \E j \in 1..Len(cs) :
                    ChildIndex(cs[j]) = i /\ cs[j].ret = Completing(n.kind)
        /\ IsResetAt(log, p) => n.complete = {}

\* A PSelection with one child complete: the second fails and goes into
\* the set, the third succeeds and ends the tick.
C13_Witness ==
  /\ op = "Execute"
  /\ root.kind = "PSelection"
  /\ Len(root.nodes) = 3
  /\ before.complete = {0}
  /\ root.complete = {0, 1}
  /\ ret = Success

\* ---------------------------------------------------------------- C14
\* The root is a Sequence or Selection that returned Success or Failure
\* and has been ticked again, no Reset in between.
Reticked ==
  /\ IsSerial(root)
  /\ prev.op = "Execute"
  /\ prev.ret \in {Success, Failure}
  /\ op = "Execute"

\* What a serial composite returns when it runs out of children.
Vacuous(k) == IF k = "Sequence" THEN Success ELSE Failure

\* The children of the root called in the tick before the last, and the
\* position of the one that ended it.
PrevCalls == ChildCalls(prev.log, <<>>)

Ended == ChildIndex(PrevCalls[Len(PrevCalls)])

CalledNow == {ChildIndex(ChildCalls(log, <<>>)[j]) : j \in 1..Len(ChildCalls(log, <<>>))}

\* C14 as stated: a Sequence (Selection) that has returned Success or
\* Failure and is ticked again without Reset starts from a cursor past the
\* child that ended the previous tick, does not call that child again, and
\* returns Success (Failure).
C14_StalePastEnd ==
  Reticked =>
    /\ ret = Vacuous(root.kind)
    /\ Len(PrevCalls) > 0 => (before.index > Ended /\ Ended \notin CalledNow)

\* C14 as amended: after the result with which it runs out of children
\* (Success for a Sequence, Failure for a Selection) the cursor is at the
\* end of the list, and the next Execute calls no child and returns that
\* result again; after the other terminal result (Failure for a Sequence,
\* Success for a Selection) the cursor is at the child that ended the
\* tick, and the next Execute calls that child again first.
C14_StaleCursor ==
  Reticked =>
    IF prev.ret = Vacuous(root.kind)
    THEN /\ before.index = Len(before.nodes)
         /\ ChildCalls(log, <<>>) = <<>>
         /\ ret = Vacuous(root.kind)
    ELSE /\ Len(PrevCalls) > 0
         /\ before.index = Ended
         /\ Len(ChildCalls(log, <<>>)) > 0
         /\ ChildIndex(ChildCalls(log, <<>>)[1]) = Ended

\* A Sequence of three failed by its second child; ticked again, it calls
\* that child again, which now succeeds, and goes on to the third.
C14_Witness ==
  /\ Reticked
  /\ root.kind = "Sequence"
  /\ Len(root.nodes) = 3
  /\ prev.ret = Failure
  /\ Ended = 1
  /\ CalledNow = {1, 2}
  /\ ret = Running

\* A Selection of three that failed returns Failure again, calling nothing.
C14_WitnessVacuous ==
  /\ Reticked
  /\ root.kind = "Selection"
  /\ Len(root.nodes) = 3
  /\ prev.ret = Failure
  /\ ret = Failure
  /\ log = <<ExecuteEvent(<<>>, Failure)>>

\* ---------------------------------------------------------------- C15
\* The positions of the children of the node at p called in the last call.
CalledAt(p) == {ChildIndex(ChildCalls(log, p)[j]) : j \in 1..Len(ChildCalls(log, p))}

\* C15: an Execute of a Sequence or Selection that returns Running leaves
\* the cursor at the child that returned Running; the next Execute, no
\* Reset in between, calls that child first, and calls no child before the
\* cursor.  The second half holds of every Sequence and Selection in the
\* tree that an Execute reaches: it calls the child at the cursor it
\* starts from first and none before it.
C15_RunningResumes ==
  /\ \A p \in SerialPaths :
       (op = "Execute" /\ IsExecutedAt(log, p)) =>
         /\ \A i \in CalledAt(p) : i >= NodeAt(before, p).index
         /\ Len(ChildCalls(log, p)) > 0 =>
              ChildIndex(ChildCalls(log, p)[1]) = NodeAt(before, p).index
         /\ (RetAt(log, p) = Running /\ ~IsResetAt(log, p)) =>
              /\ Len(ChildCalls(log, p)) > 0
              /\ ChildCalls(log, p)[Len(ChildCalls(log, p))].ret = Running
              /\ NodeAt(root, p).index = ChildIndex(ChildCalls(log, p)[Len(ChildCalls(log, p))])
  /\ (IsSerial(root) /\ prev.op = "Execute" /\ prev.ret = Running /\ op = "Execute") =>
       /\ Len(PrevCalls) > 0
       /\ PrevCalls[Len(PrevCalls)].ret = Running
       /\ before.index = Ended
       /\ ChildIndex(ChildCalls(log, <<>>)[1]) = Ended
       /\ \A i \in CalledNow : i >= Ended

\* A Sequence of three whose second child was running is ticked again: the
\* first child is not called, the second and third are.
C15_Witness ==
  /\ root.kind = "Sequence"
  /\ Len(root.nodes) = 3
  /\ prev.op = "Execute"
  /\ prev.ret = Running
  /\ op = "Execute"
  /\ Ended = 1
  /\ CalledNow = {1, 2}
  /\ ret = Success

\* ---------------------------------------------------------------- C16
\* The States of its child that a decorator of kind k turns into Running.
Converted(k) ==
  CASE k = "Repeat" -> {Success, Failure}
    [] k = "Until" -> {Failure}
    [] k = "While" -> {Success}
    [] OTHER -> {}

\* Where in the log the Execute of the node at p returned.
ReturnAt(lg, p) == CHOOSE j \in 1..Len(lg) : lg[j].op = "Execute" /\ lg[j].path = p

\* The places in the log, before the Execute of the decorator at p
\* returned, where Reset was called on its child.
ChildResets(p) ==
  {j \in 1..(ReturnAt(log, p) - 1) : log[j] = ResetEvent(Append(p, 0))}

\* C16: a Repeat, Until or While calls Reset on its child exactly once in
\* an Execute in which it turns the child's Success or Failure into
\* Running (Repeat both, Until Failure, While Success) and not at all in
\* any other Execute; the Reset comes after the child's Execute returned
\* and before the decorator's own returns, and leaves the child as built,
\* a composite child with its cursor on its first child.  Invert,
\* ForceSuccess and ForceFailure never call Reset on their child.
C16_LoopResetsOnce ==
  op = "Execute" =>
    \A p \in Paths(root, <<>>) :
      (IsDecorator(NodeAt(root, p)) /\ IsExecutedAt(log, p)) =>
        LET c == Append(p, 0)
            k == NodeAt(root, p).kind
        IN  /\ IsExecutedAt(log, c)
            /\ ReturnAt(log, c) < ReturnAt(log, p)
            /\ IF RetAt(log, c) \in Converted(k)
               THEN /\ Cardinality(ChildResets(p)) = 1
                    /\ \A j \in ChildResets(p) : j > ReturnAt(log, c)
                    /\ RetAt(log, p) = Running
                    /\ NodeAt(root, c) = Fresh(NodeAt(root, c))
               ELSE ChildResets(p) = {}

\* A While over a Sequence of one child that succeeds: the Sequence ran to
\* its end, was Reset once after it returned, and has its cursor at 0.
C16_Witness ==
  /\ op = "Execute"
  /\ root.kind = "While"
  /\ root.node.kind = "Sequence"
  /\ log = << ExecuteEvent(<<0, 0>>, Success), ExecuteEvent(<<0>>, Success),
              ResetEvent(<<0>>), ResetEvent(<<0, 0>>), ExecuteEvent(<<>>, Running) >>
  /\ root.node.index = 0

\* An Until over a Sequence whose child succeeds: no Reset, and the cursor
\* of the Sequence is left at its end.
C16_WitnessNoReset ==
  /\ op = "Execute"
  /\ root.kind = "Until"
  /\ root.node.kind = "Sequence"
  /\ log = << ExecuteEvent(<<0, 0>>, Success), ExecuteEvent(<<0>>, Success),
              ExecuteEvent(<<>>, Success) >>
  /\ root.node.index = 1

\* ---------------------------------------------------------------- C17
\* What a composite of kind k returns when no child decides the result.
Identity(k) == IF k \in {"Sequence", "PSequence"} THEN Success ELSE Failure

EmptyPaths ==
  {p \in Paths(root, <<>>) :
     (IsSerial(NodeAt(root, p)) \/ IsParallel(NodeAt(root, p))) /\ Len(NodeAt(root, p).nodes) = 0}

\* C17: a composite without children returns Success if it is a Sequence
\* or PSequence and Failure if it is a Selection or PSelection, on every
\* Execute, the first, one after another Execute and one after a Reset
\* alike; it calls nothing and its state stays as built.
C17_EmptyIdentity ==
  /\ \A p \in EmptyPaths :
       /\ NodeAt(root, p) = Fresh(NodeAt(root, p))
       /\ (op = "Execute" /\ IsExecutedAt(log, p)) =>
            RetAt(log, p) = Identity(NodeAt(root, p).kind)
  /\ (<<>> \in EmptyPaths /\ op = "Execute") =>
       /\ ret = Identity(root.kind)
       /\ log = <<ExecuteEvent(<<>>, ret)>>

\* An empty Selection fails right after a Reset.
C17_Witness ==
  /\ root = Selection(<<>>)
  /\ prev.op = "Reset"
  /\ op = "Execute"
  /\ ret = Failure
  /\ log = <<ExecuteEvent(<<>>, Failure)>>

\* An empty PSequence succeeds a second time in a row.
C17_WitnessAgain ==
  /\ root = PSequence(<<>>)
  /\ prev.op = "Execute"
  /\ prev.ret = Success
  /\ op = "Execute"
  /\ ret = Success
  /\ log = <<ExecuteEvent(<<>>, Success)>>

\* An empty Selection under an Invert fails, which the Invert turns round.
C17_WitnessNested ==
  /\ root = decorator("Invert", Selection(<<>>))
  /\ op = "Execute"
  /\ log = <<ExecuteEvent(<<0>>, Failure), ExecuteEvent(<<>>, Success)>>

\* ---------------------------------------------------------------- C18
\* The States a decorator of kind k never returns, whatever its child does.
Never(k) ==
  CASE k = "Repeat" -> {Success, Failure}
    [] k = "Until" -> {Failure}
    [] k = "While" -> {Success}
    [] OTHER -> {}

\* C18: whatever the child returns and whatever calls went before, a
\* Repeat returns Running or Unknown only, an Until never returns Failure
\* and a While never returns Success; and the cursor of a Sequence or
\* Selection is never beyond a child that is a Repeat.
C18_LoopNeverEmits ==
  /\ op = "Execute" =>
       \A p \in Paths(root, <<>>) :
         (IsDecorator(NodeAt(root, p)) /\ IsExecutedAt(log, p)) =>
           /\ RetAt(log, p) \notin Never(NodeAt(root, p).kind)
           /\ RetAt(log, p) \in Enumerated
           /\ NodeAt(root, p).kind = "Repeat" => RetAt(log, p) \in {Running, Unknown}
  /\ \A p \in SerialPaths :
       \A i \in 1..Len(NodeAt(root, p).nodes) :
         NodeAt(root, p).nodes[i].kind = "Repeat" => NodeAt(root, p).index <= i - 1

\* A Sequence over a Repeat whose child succeeds: the Repeat returns
\* Running and the cursor of the Sequence stays on it.
C18_Witness ==
  /\ op = "Execute"
  /\ root.kind = "Sequence"
  /\ Len(root.nodes) = 1
  /\ root.nodes[1].kind = "Repeat"
  /\ log = << ExecuteEvent(<<0, 0>>, Success), ResetEvent(<<0, 0>>),
              ExecuteEvent(<<0>>, Running), ExecuteEvent(<<>>, Running) >>
  /\ root.index = 0

\* A Selection over a Repeat whose child fails.
C18_WitnessSelection ==
  /\ op = "Execute"
  /\ root.kind = "Selection"
  /\ Len(root.nodes) = 1
  /\ root.nodes[1].kind = "Repeat"
  /\ log = << ExecuteEvent(<<0, 0>>, Failure), ResetEvent(<<0, 0>>),
              ExecuteEvent(<<0>>, Running), ExecuteEvent(<<>>, Running) >>
  /\ root.index = 0

\* ---------------------------------------------------------------- C19
\* A Sequence or PSequence over recorded children, ticked again and again
\* without Reset.  run.calls[i] is the number of Running results child i
\* gives before its Success, run.left[i] how many of them are still to
\* come (a child called after its Success starts its record again),
\* run.ticks the number of Executes of the root so far.

\* What a recorded child with n Running results left returns when called.
Recorded(n) == IF n > 0 THEN Running ELSE Success

InitRecorded ==
  /\ \E j \in 0..MaxKids :
       /\ root \in {Sequence([i \in 1..j |-> Action]), PSequence([i \in 1..j |-> Action])}
       /\ \E calls \in [1..j -> 0..MaxRuns] :
            run = [ticks |-> 0, left |-> calls, calls |-> calls]
  /\ before = root
  /\ op = "New"
  /\ ret = Unknown
  /\ log = <<>>
  /\ prev = [op |-> "New", ret |-> Unknown, log |-> <<>>]
  /\ twin = NoTwin

\* One pass of the loop of CheckBehavior, as long as the root has not
\* returned Success.
CheckBehavior ==
  /\ ret # Success
  /\ LET in == [p \in LeafPaths(root) |-> Recorded(run.left[p[1] + 1])]
         c == Execute(root, <<>>, in)
     IN  /\ root' = c.node
         /\ before' = root
         /\ op' = "Execute"
         /\ ret' = c.ret
         /\ log' = c.log
         /\ run' = [run EXCEPT
                      !.ticks = @ + 1,
                      !.left = [i \in 1..Len(run.left) |->
                                  IF ~IsExecutedAt(c.log, <<i - 1>>) THEN run.left[i]
                                  ELSE IF run.left[i] > 0 THEN run.left[i] - 1
                                  ELSE run.calls[i]]]
  /\ UNCHANGED <<prev, twin>>

NextRecorded == CheckBehavior

\* CheckBehavior can take a step exactly as long as the root has not
\* returned Success: every pass adds one to run.ticks.
CheckBehaviorEnabled == (ENABLED <<CheckBehavior>>_vars) <=> (ret # Success)

\* The loop of CheckBehavior goes on to its next pass: weak fairness of
\* CheckBehavior, with ENABLED <<CheckBehavior>>_vars written as the guard
\* it is equivalent to (CheckBehaviorEnabled).
CheckBehaviorGoesOn == <>[](ret = Success) \/ []<><<CheckBehavior>>_vars

SpecRecorded == InitRecorded /\ [][NextRecorded]_vars /\ CheckBehaviorGoesOn

RECURSIVE SumOf(_)
SumOf(cs) == IF cs = <<>> THEN 0 ELSE cs[1] + SumOf(Tail(cs))

RECURSIVE MaxOf(_)
MaxOf(cs) ==
  IF cs = <<>> THEN 0
  ELSE IF cs[1] >= MaxOf(Tail(cs)) THEN cs[1] ELSE MaxOf(Tail(cs))

\* The most ticks the root may need.
TickBound ==
  IF root.kind = "Sequence" THEN SumOf(run.calls) + 1 ELSE MaxOf(run.calls) + 1

RecordedSafe ==
  /\ op = "Execute" => ret \in {Running, Success}
  /\ run.ticks <= TickBound
  /\ ret = Running => run.ticks < TickBound

\* C19: ticked again and again without Reset, a Sequence or PSequence
\* whose children each return Running a finite number of times and then
\* Success returns Running on every tick until it returns Success, which
\* it does in the end: the Sequence after no more ticks than all the
\* Running results of its children together plus one, the PSequence after
\* no more than the most Running results of any one child plus one.
C19_ReturnsSuccess == [](RecordedSafe) /\ <>(ret = Success)

\* The run of TestPSequence_Success: children with 2, 1 and 0 Running
\* results, Success on the third tick.
C19_Witness ==
  /\ root.kind = "PSequence"
  /\ run.calls = <<2, 1, 0>>
  /\ run.ticks = 3
  /\ ret = Success
  /\ before.complete = {1, 2}

\* A Sequence over the same children needs four ticks.
C19_WitnessSequence ==
  /\ root.kind = "Sequence"
  /\ run.calls = <<2, 1, 0>>
  /\ run.ticks = 4
  /\ ret = Success

\* ---------------------------------------------------------------- C20
\* The results with which a parallel composite of kind k returns from
\* inside its loop.
Aborting(k) == IF k = "PSequence" THEN {Failure, Unknown} ELSE {Success, Unknown}

\* The children of the node at p that returned s in the calls of lg.
Returned(lg, p, s) ==
  {ChildIndex(ChildCalls(lg, p)[j]) :
     j \in {i \in 1..Len(ChildCalls(lg, p)) : ChildCalls(lg, p)[i].ret = s}}

\* C20: an Execute of a PSequence (PSelection) never calls a child in the
\* completed-set, and leaves in the set what was there plus the children
\* that returned Success (Failure) in this pass, also when it aborts with
\* Failure or Unknown (Success or Unknown): then the child that made it
\* abort is the last one called and neither it nor a later child is
\* added.  Ticked again without Reset, the children completed in the
\* aborted pass are not called, and a PSequence that returned Success
\* (PSelection: Failure) returns the same again and calls no child.
C20_ProgressKept ==
  /\ \A p \in ParallelPaths :
       (op = "Execute" /\ IsExecutedAt(log, p) /\ ~IsResetAt(log, p)) =>
         LET n == NodeAt(root, p)
             b == NodeAt(before, p)
             cs == ChildCalls(log, p)
         IN  /\ CalledAt(p) \cap b.complete = {}
             /\ n.complete = b.complete \cup Returned(log, p, Completing(n.kind))
             /\ RetAt(log, p) \in Aborting(n.kind) =>
                  /\ Len(cs) > 0
                  /\ cs[Len(cs)].ret \notin {Running, Completing(n.kind)}
                  /\ \A i \in CalledAt(p) : i <= ChildIndex(cs[Len(cs)])
                  /\ \A i \in ChildIndex(cs[Len(cs)])..(Len(n.nodes) - 1) :
                       i \in n.complete => i \in b.complete
  /\ (IsParallel(root) /\ prev.op = "Execute" /\ op = "Execute") =>
       /\ CalledNow \cap Returned(prev.log, <<>>, Completing(root.kind)) = {}
       /\ prev.ret = Identity(root.kind) =>
            /\ ret = prev.ret
            /\ log = <<ExecuteEvent(<<>>, ret)>>
            /\ root = before

\* A PSequence of three was aborted by the Failure of its second child
\* after the Success of its first; ticked again, it calls the second and
\* third child only.
C20_Witness ==
  /\ root.kind = "PSequence"
  /\ Len(root.nodes) = 3
  /\ prev.op = "Execute"
  /\ prev.ret = Failure
  /\ Returned(prev.log, <<>>, Success) = {0}
  /\ op = "Execute"
  /\ before.complete = {0}
  /\ CalledNow = {1, 2}
  /\ ret = Success

\* A PSelection of three that failed fails again and calls nothing.
C20_WitnessAgain ==
  /\ root.kind = "PSelection"
  /\ Len(root.nodes) = 3
  /\ prev.op = "Execute"
  /\ prev.ret = Failure
  /\ Len(ChildCalls(prev.log, <<>>)) > 0
  /\ op = "Execute"
  /\ ret = Failure
  /\ log = <<ExecuteEvent(<<>>, Failure)>>

====
